---- MODULE Spec2Model ----
(***************************************************************************)
(* Receiver sketch of the IR controlled car (src/Final_car.ino): the poll  *)
(* loop, the command handler, the manual-silence watchdog and the obstacle *)
(* avoidance cycle, over the motor and buzzer pins.                        *)
(***************************************************************************)
EXTENDS Integers, FiniteSets, Sequences, TLC

\* ---------------------------------------------------------------- constants
IN1 == 7
IN2 == 8
IN3 == 9
IN4 == 10
BUZZER_PIN == 6

IR_FORWARD == 8704      \* 0x2200
IR_BACKWARD == 49664    \* 0xC200
IR_LEFT == 43008        \* 0xA800
IR_RIGHT == 25088       \* 0x6200
IR_SMART_FWD == 512     \* 0x200

OBSTACLE_THRESHOLD == 20
obstacleCheckInterval == 300
signalTimeout == 200

LOW == "LOW"
HIGH == "HIGH"

\* ------------------------------------------------------------------- bounds
\* The clock advances by at most this much in steps of Deltas.
MaxTime == 900

\* ------------------------------------------------------------ clock values
\* millis() and the two stamps are unsigned long, 32 bits. A time is a pair
\* <<hi, lo>> that stands for hi * Half + lo, with lo in 0..Half-1; a clock
\* value has hi in 0..Half-1 as well, a true time any hi.
Half == 2 ^ 16

\* the time of n milliseconds, n a natural number
Ms(n) == <<n \div Half, n % Half>>

Plus(t, u) ==
    LET lo == t[2] + u[2] IN <<t[1] + u[1] + (lo \div Half), lo % Half>>

Minus(t, u) ==
    LET lo == t[2] - u[2] IN <<t[1] - u[1] - (IF lo < 0 THEN 1 ELSE 0), lo % Half>>

Less(t, u) == t[1] < u[1] \/ (t[1] = u[1] /\ t[2] < u[2])

\* reduction of a time to 32 bits
Unsigned32(t) == <<t[1] % Half, t[2]>>

\* 2^32 milliseconds, the period of millis()
Wrap == <<Half, 0>>

\* Time that may pass between two calls of loop().
Deltas == {100, 101}

\* A long time without a command, 600 ms short of the period of millis().
IdleTime == <<Half - 1, Half - 600>>

\* A code of the remote that the switch of handleIRCommand has no case for.
IR_OTHER == 4660        \* 0x1234
Codes == {IR_FORWARD, IR_BACKWARD, IR_LEFT, IR_RIGHT, IR_SMART_FWD, IR_OTHER}

\* Echo pulse widths in microseconds returned by pulseIn; 0 is its timeout.
Durations == {0, 30, 1176, 1177, 1236}

MotorPins == {IN1, IN2, IN3, IN4}
Pins == MotorPins \cup {BUZZER_PIN}

VARIABLES
    isSmartForward,    \* line 35
    isAvoiding,        \* line 36
    lastObstacleCheck, \* line 37
    lastIRSignalTime,  \* line 40
    pins,              \* output level of the motor pins and the buzzer pin
    uptime,            \* true time since start; millis() is its low 32 bits
    pc,                \* position in loop(): "tick", "ir", "watchdog", "smart"
    received,          \* IrReceiver.decode() returned true in this iteration
    command,           \* IrReceiver.decodedIRData.command
    checked,           \* checkObstacle ran in this iteration
    duration,          \* pulse width read by the checkObstacle of this iteration
    atEntry,           \* the globals when this iteration of loop() began
    lastCommandAt,     \* true time of the last command receipt
    lastCheckAt,       \* true time of the last run of checkObstacle
    toggleRun          \* 1: the last command was a toggle received in Manual;
                       \* 2: the last command was the toggle right after that one

vars == <<isSmartForward, isAvoiding, lastObstacleCheck, lastIRSignalTime, pins,
          uptime, pc, received, command, checked, duration, atEntry,
          lastCommandAt, lastCheckAt, toggleRun>>

\* ------------------------------------------------------------ clock
millis == Unsigned32(uptime)

\* signed subtraction without the wrap
ElapsedSigned(now, stamp) == Minus(now, stamp)

\* unsigned subtraction millis() - stamp
Elapsed(now, stamp) == Unsigned32(Minus(now, stamp))

\* The part of uptime that passed in steps of Deltas.
ShortTime == IF uptime[1] = 0 THEN uptime[2] ELSE Minus(uptime, IdleTime)[2]

\* ------------------------------------------------------------ actuator
digitalWrite(p, pin, level) == [p EXCEPT ![pin] = level]

moveForward(p) ==
    digitalWrite(digitalWrite(digitalWrite(digitalWrite(p, IN1, LOW), IN2, LOW), IN3, HIGH), IN4, HIGH)

moveBackward(p) ==
    digitalWrite(digitalWrite(digitalWrite(digitalWrite(p, IN1, HIGH), IN2, HIGH), IN3, LOW), IN4, LOW)

turnLeft(p) ==
    digitalWrite(digitalWrite(digitalWrite(digitalWrite(p, IN1, LOW), IN2, HIGH), IN3, HIGH), IN4, LOW)

turnRight(p) ==
    digitalWrite(digitalWrite(digitalWrite(digitalWrite(p, IN1, HIGH), IN2, LOW), IN3, LOW), IN4, HIGH)

stopCar(p) ==
    digitalWrite(digitalWrite(digitalWrite(digitalWrite(p, IN1, HIGH), IN2, HIGH), IN3, HIGH), IN4, HIGH)

\* The motion a setting of the four motor pins produces.
Actuator(p) ==
    LET m == <<p[IN1], p[IN2], p[IN3], p[IN4]>> IN
    CASE m = <<LOW, LOW, HIGH, HIGH>> -> "forward"
      [] m = <<HIGH, HIGH, LOW, LOW>> -> "backward"
      [] m = <<LOW, HIGH, HIGH, LOW>> -> "turn-left"
      [] m = <<HIGH, LOW, LOW, HIGH>> -> "turn-right"
      [] m = <<HIGH, HIGH, HIGH, HIGH>> -> "stop"
      [] OTHER -> "undefined"

BuzzerOn(p) == p[BUZZER_PIN] = HIGH

\* ------------------------------------------------------------ sensor
\* return duration * 0.034 / 2, converted to int (truncation)
getDistance(d) == (d * 17) \div 1000

\* ------------------------------------------------------------ handlers
\* The globals the handlers read and write, as one record.
Globals == [isSmartForward |-> isSmartForward, isAvoiding |-> isAvoiding,
            lastObstacleCheck |-> lastObstacleCheck, pins |-> pins]

\* toggleSmartMode that does not drive forward when it turns the mode on
toggleSmartModeNoForward(g) ==
    LET t == [g EXCEPT !.isSmartForward = ~g.isSmartForward] IN
    IF t.isSmartForward
    THEN t
    ELSE [t EXCEPT !.pins = stopCar(digitalWrite(t.pins, BUZZER_PIN, LOW))]

\* toggleSmartMode that does not stop the car when it turns the mode off
toggleSmartModeNoStop(g) ==
    LET t == [g EXCEPT !.isSmartForward = ~g.isSmartForward] IN
    IF t.isSmartForward
    THEN [t EXCEPT !.pins = moveForward(t.pins)]
    ELSE [t EXCEPT !.pins = digitalWrite(t.pins, BUZZER_PIN, LOW)]

\* toggleSmartMode that leaves the buzzer as it is when it turns the mode off
toggleSmartModeKeepsBuzzer(g) ==
    LET t == [g EXCEPT !.isSmartForward = ~g.isSmartForward] IN
    IF t.isSmartForward
    THEN [t EXCEPT !.pins = moveForward(t.pins)]
    ELSE [t EXCEPT !.pins = stopCar(t.pins)]

toggleSmartMode(g) ==
    LET t == [g EXCEPT !.isSmartForward = ~g.isSmartForward] IN
    IF t.isSmartForward
    THEN [t EXCEPT !.pins = moveForward(t.pins)]
    ELSE [t EXCEPT !.pins = stopCar(digitalWrite(t.pins, BUZZER_PIN, LOW))]

\* stopSmartMode that leaves the buzzer as it is
stopSmartModeKeepsBuzzer(g) ==
    IF g.isSmartForward
    THEN [g EXCEPT !.isSmartForward = FALSE]
    ELSE g

stopSmartMode(g) ==
    IF g.isSmartForward
    THEN [g EXCEPT !.isSmartForward = FALSE,
                   !.pins = digitalWrite(g.pins, BUZZER_PIN, LOW)]
    ELSE g

\* handleIRCommand with a default case that stops the car
handleIRCommandDefaultStops(g, c) ==
    CASE c = IR_FORWARD ->
           IF ~g.isSmartForward THEN [g EXCEPT !.pins = moveForward(g.pins)] ELSE g
      [] c = IR_BACKWARD ->
           LET s == stopSmartMode(g) IN [s EXCEPT !.pins = moveBackward(s.pins)]
      [] c = IR_LEFT ->
           LET s == stopSmartMode(g) IN [s EXCEPT !.pins = turnLeft(s.pins)]
      [] c = IR_RIGHT ->
           LET s == stopSmartMode(g) IN [s EXCEPT !.pins = turnRight(s.pins)]
      [] c = IR_SMART_FWD -> toggleSmartMode(g)
      [] OTHER -> [g EXCEPT !.pins = stopCar(g.pins)]

\* handleIRCommand whose Forward case does not test the mode
handleIRCommandForwardAlways(g, c) ==
    CASE c = IR_FORWARD -> [g EXCEPT !.pins = moveForward(g.pins)]
      [] c = IR_BACKWARD ->
           LET s == stopSmartMode(g) IN [s EXCEPT !.pins = moveBackward(s.pins)]
      [] c = IR_LEFT ->
           LET s == stopSmartMode(g) IN [s EXCEPT !.pins = turnLeft(s.pins)]
      [] c = IR_RIGHT ->
           LET s == stopSmartMode(g) IN [s EXCEPT !.pins = turnRight(s.pins)]
      [] c = IR_SMART_FWD -> toggleSmartMode(g)
      [] OTHER -> g

handleIRCommand(g, c) ==
    CASE c = IR_FORWARD ->
           IF ~g.isSmartForward THEN [g EXCEPT !.pins = moveForward(g.pins)] ELSE g
      [] c = IR_BACKWARD ->
           LET s == stopSmartMode(g) IN [s EXCEPT !.pins = moveBackward(s.pins)]
      [] c = IR_LEFT ->
           LET s == stopSmartMode(g) IN [s EXCEPT !.pins = turnLeft(s.pins)]
      [] c = IR_RIGHT ->
           LET s == stopSmartMode(g) IN [s EXCEPT !.pins = turnRight(s.pins)]
      [] c = IR_SMART_FWD -> toggleSmartMode(g)
      [] OTHER -> g

\* the obstacle test without the exclusion of 0
ObstacleSeenFromZero(distance) == distance >= 0 /\ distance < OBSTACLE_THRESHOLD

\* the obstacle test with the threshold included
ObstacleSeenInclusive(distance) == distance > 0 /\ distance <= OBSTACLE_THRESHOLD

\* line 133
ObstacleSeen(distance) == distance > 0 /\ distance < OBSTACLE_THRESHOLD

\* checkObstacle whose clear branch leaves the buzzer as it is
checkObstacleKeepsBuzzer(g, now, d) ==
    LET s == [g EXCEPT !.lastObstacleCheck = now]
        distance == getDistance(d)
    IN  IF ObstacleSeen(distance)
        THEN [s EXCEPT !.isAvoiding = TRUE,
                       !.pins = turnRight(digitalWrite(s.pins, BUZZER_PIN, HIGH))]
        ELSE [s EXCEPT !.isAvoiding = FALSE,
                       !.pins = moveForward(s.pins)]

\* checkObstacle that does not record the time of the cycle
checkObstacleNoStamp(g, now, d) ==
    LET distance == getDistance(d)
    IN  IF ObstacleSeen(distance)
        THEN [g EXCEPT !.isAvoiding = TRUE,
                       !.pins = turnRight(digitalWrite(g.pins, BUZZER_PIN, HIGH))]
        ELSE [g EXCEPT !.isAvoiding = FALSE,
                       !.pins = moveForward(digitalWrite(g.pins, BUZZER_PIN, LOW))]

checkObstacle(g, now, d) ==
    LET s == [g EXCEPT !.lastObstacleCheck = now]
        distance == getDistance(d)
    IN  IF ObstacleSeen(distance)
        THEN [s EXCEPT !.isAvoiding = TRUE,
                       !.pins = turnRight(digitalWrite(s.pins, BUZZER_PIN, HIGH))]
        ELSE [s EXCEPT !.isAvoiding = FALSE,
                       !.pins = moveForward(digitalWrite(s.pins, BUZZER_PIN, LOW))]

\* the watchdog test with the comparison turned around
WatchdogExpiredInverted(now, stamp) == Less(Elapsed(now, stamp), Ms(signalTimeout))

\* the watchdog test against a longer timeout
WatchdogExpiredLate(now, stamp) == Less(Ms(signalTimeout + 100), Elapsed(now, stamp))

\* line 77: millis() - lastIRSignalTime > signalTimeout
WatchdogExpired(now, stamp) == Less(Ms(signalTimeout), Elapsed(now, stamp))

\* line 83: millis() - lastObstacleCheck > obstacleCheckInterval
CheckDue(now, stamp) == Less(Ms(obstacleCheckInterval), Elapsed(now, stamp))

\* ------------------------------------------------------------ state machine
\* The state when loop() is first called: the globals as initialised, the
\* pins as setup() leaves them.
Init ==
    /\ isSmartForward = FALSE
    /\ isAvoiding = FALSE
    /\ lastObstacleCheck = Ms(0)
    /\ lastIRSignalTime = Ms(0)
    /\ pins = digitalWrite(stopCar([p \in Pins |-> LOW]), BUZZER_PIN, LOW)
    /\ uptime = Ms(0)
    /\ pc = "ir"
    /\ received = FALSE
    /\ command = 0
    /\ checked = FALSE
    /\ duration = 0
    /\ atEntry = [isSmartForward |-> FALSE, isAvoiding |-> FALSE,
                  lastObstacleCheck |-> Ms(0),
                  pins |-> digitalWrite(stopCar([p \in Pins |-> LOW]), BUZZER_PIN, LOW)]
    /\ lastCommandAt = Ms(0)
    /\ lastCheckAt = Ms(0)
    /\ toggleRun = 0

SetGlobals(g) ==
    /\ isSmartForward' = g.isSmartForward
    /\ isAvoiding' = g.isAvoiding
    /\ lastObstacleCheck' = g.lastObstacleCheck
    /\ pins' = g.pins

\* loop() returns and is called again; d is the time that passed meanwhile.
Tick(d) ==
    /\ pc = "tick"
    /\ ShortTime + d <= MaxTime
    /\ uptime' = Plus(uptime, Ms(d))
    /\ pc' = "ir"
    /\ received' = FALSE
    /\ checked' = FALSE
    /\ duration' = 0
    /\ atEntry' = Globals
    /\ UNCHANGED <<isSmartForward, isAvoiding, lastObstacleCheck, lastIRSignalTime,
                   pins, command, lastCommandAt, lastCheckAt, toggleRun>>

\* Calls of loop() over IdleTime, none with a command, while the car stands
\* in Manual mode with the watchdog expired: no call changes a global or a
\* pin. At most once, and before the clock has wrapped.
Idle ==
    /\ pc = "tick"
    /\ uptime[1] = 0
    /\ ~isSmartForward
    /\ Actuator(pins) = "stop"
    /\ WatchdogExpired(millis, lastIRSignalTime)
    /\ uptime' = Plus(uptime, IdleTime)
    /\ pc' = "ir"
    /\ received' = FALSE
    /\ checked' = FALSE
    /\ duration' = 0
    /\ atEntry' = Globals
    /\ UNCHANGED <<isSmartForward, isAvoiding, lastObstacleCheck, lastIRSignalTime,
                   pins, command, lastCommandAt, lastCheckAt, toggleRun>>

\* lines 70-74 with the stamp taken only for the codes that have a case
ReceiveIRStampsKnown(c) ==
    /\ pc = "ir"
    /\ received' = TRUE
    /\ lastIRSignalTime' = IF c = IR_OTHER THEN lastIRSignalTime ELSE millis
    /\ command' = c
    /\ SetGlobals(handleIRCommand(Globals, c))
    /\ lastCommandAt' = uptime
    /\ toggleRun' = IF c # IR_SMART_FWD THEN 0
                    ELSE IF toggleRun = 1 THEN 2
                    ELSE IF ~isSmartForward THEN 1 ELSE 0
    /\ pc' = "watchdog"
    /\ UNCHANGED <<uptime, checked, duration, atEntry, lastCheckAt>>

\* lines 70-74 with decode() true and c the decoded command
ReceiveIR(c) ==
    /\ pc = "ir"
    /\ received' = TRUE
    /\ lastIRSignalTime' = millis
    /\ command' = c
    /\ SetGlobals(handleIRCommand(Globals, c))
    /\ lastCommandAt' = uptime
    /\ toggleRun' = IF c # IR_SMART_FWD THEN 0
                    ELSE IF toggleRun = 1 THEN 2
                    ELSE IF ~isSmartForward THEN 1 ELSE 0
    /\ pc' = "watchdog"
    /\ UNCHANGED <<uptime, checked, duration, atEntry, lastCheckAt>>

\* lines 70-74 with decode() false
NoIR ==
    /\ pc = "ir"
    /\ pc' = "watchdog"
    /\ UNCHANGED <<isSmartForward, isAvoiding, lastObstacleCheck, lastIRSignalTime,
                   pins, uptime, received, command, checked, duration, atEntry,
                   lastCommandAt, lastCheckAt, toggleRun>>

\* lines 77-79 without the test of isSmartForward
WatchdogAnyMode ==
    /\ pc = "watchdog"
    /\ pins' = IF WatchdogExpired(millis, lastIRSignalTime)
               THEN stopCar(pins) ELSE pins
    /\ pc' = "smart"
    /\ UNCHANGED <<isSmartForward, isAvoiding, lastObstacleCheck, lastIRSignalTime,
                   uptime, received, command, checked, duration, atEntry,
                   lastCommandAt, lastCheckAt, toggleRun>>

\* lines 77-79
Watchdog ==
    /\ pc = "watchdog"
    /\ pins' = IF ~isSmartForward /\ WatchdogExpired(millis, lastIRSignalTime)
               THEN stopCar(pins) ELSE pins
    /\ pc' = "smart"
    /\ UNCHANGED <<isSmartForward, isAvoiding, lastObstacleCheck, lastIRSignalTime,
                   uptime, received, command, checked, duration, atEntry,
                   lastCommandAt, lastCheckAt, toggleRun>>

\* lines 82-86 testing the mode the iteration began with
SmartCheckStaleMode(d) ==
    /\ pc = "smart"
    /\ atEntry.isSmartForward
    /\ CheckDue(millis, lastObstacleCheck)
    /\ SetGlobals(checkObstacle(Globals, millis, d))
    /\ checked' = TRUE
    /\ duration' = d
    /\ lastCheckAt' = uptime
    /\ pc' = "tick"
    /\ UNCHANGED <<lastIRSignalTime, uptime, received, command, atEntry,
                   lastCommandAt, toggleRun>>

\* lines 82-86 without the test of isSmartForward
SmartCheckAnyMode(d) ==
    /\ pc = "smart"
    /\ CheckDue(millis, lastObstacleCheck)
    /\ SetGlobals(checkObstacle(Globals, millis, d))
    /\ checked' = TRUE
    /\ duration' = d
    /\ lastCheckAt' = uptime
    /\ pc' = "tick"
    /\ UNCHANGED <<lastIRSignalTime, uptime, received, command, atEntry,
                   lastCommandAt, toggleRun>>

\* lines 82-86 when checkObstacle runs; d is the pulse width pulseIn returns
SmartCheck(d) ==
    /\ pc = "smart"
    /\ isSmartForward
    /\ CheckDue(millis, lastObstacleCheck)
    /\ SetGlobals(checkObstacle(Globals, millis, d))
    /\ checked' = TRUE
    /\ duration' = d
    /\ lastCheckAt' = uptime
    /\ pc' = "tick"
    /\ UNCHANGED <<lastIRSignalTime, uptime, received, command, atEntry,
                   lastCommandAt, toggleRun>>

\* lines 82-86 when checkObstacle does not run
SmartSkip ==
    /\ pc = "smart"
    /\ ~(isSmartForward /\ CheckDue(millis, lastObstacleCheck))
    /\ pc' = "tick"
    /\ UNCHANGED <<isSmartForward, isAvoiding, lastObstacleCheck, lastIRSignalTime,
                   pins, uptime, received, command, checked, duration, atEntry,
                   lastCommandAt, lastCheckAt, toggleRun>>

Next ==
    \/ \E d \in Deltas : Tick(d)
    \/ Idle
    \/ \E c \in Codes : ReceiveIR(c)
    \/ NoIR
    \/ Watchdog
    \/ \E d \in Durations : SmartCheck(d)
    \/ SmartSkip

Spec == Init /\ [][Next]_vars

TypeOK ==
    /\ isSmartForward \in BOOLEAN
    /\ isAvoiding \in BOOLEAN
    /\ lastObstacleCheck \in (0..(Half - 1)) \X (0..(Half - 1))
    /\ lastIRSignalTime \in (0..(Half - 1)) \X (0..(Half - 1))
    /\ pins \in [Pins -> {LOW, HIGH}]
    /\ Actuator(pins) # "undefined"
    /\ uptime \in (0..Half) \X (0..(Half - 1))
    /\ ShortTime \in 0..MaxTime
    /\ lastObstacleCheck = Unsigned32(lastCheckAt)
    /\ lastIRSignalTime = Unsigned32(lastCommandAt)
    /\ pc \in {"tick", "ir", "watchdog", "smart"}
    /\ command \in Codes \cup {0}
    /\ duration \in Durations
    /\ toggleRun \in 0..2

\* ------------------------------------------------------------ properties
\* True time since the last command receipt (since start before the first).
Silence == Minus(uptime, lastCommandAt)

\* True time since the last run of checkObstacle (since start before the first).
SinceCheck == Minus(uptime, lastCheckAt)

\* This step is lines 70-74 with a command decoded.
Receipt == pc = "ir" /\ received'

\* The maneuver a manual driving command asks for.
Maneuver(c) ==
    CASE c = IR_FORWARD -> "forward"
      [] c = IR_BACKWARD -> "backward"
      [] c = IR_LEFT -> "turn-left"
      [] c = IR_RIGHT -> "turn-right"
      [] OTHER -> "none"

\* The two outcomes of an avoidance cycle.
ClearOutcome == Actuator(pins) = "forward" /\ ~BuzzerOn(pins) /\ ~isAvoiding
AvoidOutcome == Actuator(pins) = "turn-right" /\ BuzzerOn(pins) /\ isAvoiding

\* C1: in Manual mode, once the watchdog check of an iteration has run with
\* more than signalTimeout of silence since the last command, the actuator is
\* stopped; and a stopped actuator in Manual mode stays stopped in every step
\* that is not the receipt of a command.
WatchdogStopsAndHolds ==
    [][ /\ (pc' \in {"smart", "tick"} /\ ~isSmartForward' /\ Less(Ms(signalTimeout), Silence')
              => Actuator(pins') = "stop")
        /\ (~isSmartForward /\ Actuator(pins) = "stop" /\ ~Receipt
              => Actuator(pins') = "stop") ]_vars

\* The watchdog of this iteration has just stopped a car that a command had
\* set in motion.
WatchdogStopsWitness ==
    /\ pc = "smart"
    /\ ~isSmartForward
    /\ ~received
    /\ Less(Ms(signalTimeout), Silence)
    /\ Actuator(atEntry.pins) = "forward"
    /\ Actuator(pins) = "stop"

\* C2: Backward, Left or Right received in SmartForward leaves mode Manual,
\* the buzzer off and the actuator in the commanded maneuver.
ManualOverride ==
    [][ Receipt /\ isSmartForward /\ command' \in {IR_BACKWARD, IR_LEFT, IR_RIGHT}
          => /\ ~isSmartForward'
             /\ ~BuzzerOn(pins')
             /\ Actuator(pins') = Maneuver(command') ]_vars

\* Backward has just been handled in an iteration that began in SmartForward,
\* Avoiding, with the buzzer on.
ManualOverrideWitness ==
    /\ pc = "watchdog"
    /\ received
    /\ command = IR_BACKWARD
    /\ atEntry.isSmartForward
    /\ atEntry.isAvoiding
    /\ BuzzerOn(atEntry.pins)
    /\ Actuator(pins) = "backward"

\* C3 as stated: an iteration that receives the toggle in Manual mode ends in
\* SmartForward with the actuator forward.
EnterSmartEndsForward ==
    pc = "tick" /\ received /\ command = IR_SMART_FWD /\ ~atEntry.isSmartForward
      => isSmartForward /\ Actuator(pins) = "forward"

\* C3 amended: such an iteration ends in SmartForward, with the actuator
\* forward unless the avoidance cycle ran in the same iteration and read a
\* distance d with 0 < d < OBSTACLE_THRESHOLD, and then turn-right.
EnterSmartEndsForwardOrAvoiding ==
    pc = "tick" /\ received /\ command = IR_SMART_FWD /\ ~atEntry.isSmartForward
      => /\ isSmartForward
         /\ Actuator(pins) = IF checked /\ ObstacleSeen(getDistance(duration))
                             THEN "turn-right" ELSE "forward"

\* An iteration that entered SmartForward ran the avoidance cycle as well.
EnterSmartWitness ==
    /\ pc = "tick"
    /\ received
    /\ command = IR_SMART_FWD
    /\ ~atEntry.isSmartForward
    /\ checked
    /\ Actuator(pins) = "turn-right"

\* C4: right after the toggle is handled in Manual mode, AvoidanceState is
\* Clear.
EnterSmartResetsAvoiding ==
    pc = "watchdog" /\ received /\ command = IR_SMART_FWD /\ ~atEntry.isSmartForward
      => ~isAvoiding

\* C5: handling the toggle flips isSmartForward and leaves isAvoiding as it
\* was; after a toggle received in Manual and the toggle right after it, the
\* mode is Manual, the actuator stopped and the buzzer off.
ToggleFlipsMode ==
    [][ /\ (Receipt /\ command' = IR_SMART_FWD
              => isSmartForward' = ~isSmartForward /\ isAvoiding' = isAvoiding)
        /\ (toggleRun' = 2
              => ~isSmartForward' /\ Actuator(pins') = "stop" /\ ~BuzzerOn(pins')) ]_vars

\* The second toggle of a pair has just been handled, and an avoidance cycle
\* had put the car in the avoiding state between the two.
ToggleTwiceWitness ==
    /\ pc = "watchdog"
    /\ toggleRun = 2
    /\ atEntry.isAvoiding
    /\ BuzzerOn(atEntry.pins)
    /\ Actuator(atEntry.pins) = "turn-right"
    /\ isAvoiding

\* C6: in an iteration that began in SmartForward and received the toggle,
\* from the handling of the command on the mode is Manual, the buzzer off and
\* the actuator stopped, and checkObstacle does not run; as long as the toggle
\* is the last command received and the mode is Manual, the actuator is
\* stopped.
ToggleLeavesSmart ==
    /\ (received /\ command = IR_SMART_FWD /\ atEntry.isSmartForward
          => /\ ~isSmartForward
             /\ ~BuzzerOn(pins)
             /\ Actuator(pins) = "stop"
             /\ ~checked)
    /\ (command = IR_SMART_FWD /\ ~isSmartForward => Actuator(pins) = "stop")

\* An iteration that left SmartForward by the toggle while avoiding has ended.
ToggleLeavesSmartWitness ==
    /\ pc = "tick"
    /\ received
    /\ command = IR_SMART_FWD
    /\ atEntry.isSmartForward
    /\ atEntry.isAvoiding
    /\ BuzzerOn(atEntry.pins)
    /\ CheckDue(millis, lastObstacleCheck)

\* C7: an avoidance cycle whose pulseIn timed out (no echo) ends with the
\* actuator forward, the buzzer off and AvoidanceState Clear.
FailOpenOnTimeout ==
    pc = "tick" /\ checked /\ duration = 0 => ClearOutcome

\* A cycle without echo has ended an avoidance.
FailOpenWitness ==
    /\ pc = "tick"
    /\ checked
    /\ duration = 0
    /\ ~received
    /\ atEntry.isAvoiding
    /\ BuzzerOn(atEntry.pins)
    /\ Actuator(atEntry.pins) = "turn-right"

\* C8: an avoidance cycle that reads a distance at or above the threshold
\* takes the clear branch, one that reads threshold - 1 the avoidance branch.
ThresholdBoundary ==
    pc = "tick" /\ checked
      => /\ (getDistance(duration) >= OBSTACLE_THRESHOLD => ClearOutcome)
         /\ (getDistance(duration) = OBSTACLE_THRESHOLD - 1 => AvoidOutcome)

\* A cycle has read exactly the threshold while the car was avoiding.
ThresholdWitness ==
    /\ pc = "tick"
    /\ checked
    /\ getDistance(duration) = OBSTACLE_THRESHOLD
    /\ atEntry.isAvoiding
    /\ ClearOutcome

\* C9: an avoidance cycle with an echo (duration > 0) from a distance below
\* the threshold, 0.017 * duration < OBSTACLE_THRESHOLD, takes the avoidance
\* branch.
PresentBelowThresholdAvoids ==
    pc = "tick" /\ checked /\ duration > 0 /\ duration * 17 < OBSTACLE_THRESHOLD * 1000
      => AvoidOutcome

\* C10: handling Forward in SmartForward changes none of the mode, the pins,
\* isAvoiding and lastObstacleCheck; lastIRSignalTime becomes the clock.
ForwardIgnoredInSmart ==
    [][ Receipt /\ isSmartForward /\ command' = IR_FORWARD
          => /\ UNCHANGED <<isSmartForward, isAvoiding, lastObstacleCheck, pins>>
             /\ lastIRSignalTime' = millis ]_vars

\* Forward has just been handled while the car was turning away from an
\* obstacle.
ForwardIgnoredWitness ==
    /\ pc = "watchdog"
    /\ received
    /\ command = IR_FORWARD
    /\ isSmartForward
    /\ Actuator(pins) = "turn-right"
    /\ BuzzerOn(pins)
    /\ lastIRSignalTime # atEntry.lastObstacleCheck

\* The codes the switch of handleIRCommand has a case for.
KnownCodes == {IR_FORWARD, IR_BACKWARD, IR_LEFT, IR_RIGHT, IR_SMART_FWD}

\* C11: handling a code that handleIRCommand has no case for changes neither
\* the mode nor the motor and buzzer pins nor isAvoiding.
UnknownCodeIgnored ==
    [][ Receipt /\ command' \notin KnownCodes
          => UNCHANGED <<isSmartForward, isAvoiding, pins>> ]_vars

\* An unknown code has just been handled while the car was turning away from
\* an obstacle with the buzzer on.
UnknownCodeWitness ==
    /\ pc = "watchdog"
    /\ received
    /\ command = IR_OTHER
    /\ isSmartForward
    /\ isAvoiding
    /\ BuzzerOn(pins)
    /\ Actuator(pins) = "turn-right"

\* C12: from the handling of Forward, Backward, Left or Right received in
\* Manual mode to the end of that iteration, the mode is Manual, the buzzer
\* off and the actuator in the commanded maneuver.
ManualDriving ==
    received /\ ~atEntry.isSmartForward
             /\ command \in {IR_FORWARD, IR_BACKWARD, IR_LEFT, IR_RIGHT}
      => /\ ~isSmartForward
         /\ ~BuzzerOn(pins)
         /\ Actuator(pins) = Maneuver(command)

\* An iteration that received Left in Manual mode, after more than the
\* timeout of silence, has ended.
ManualDrivingWitness ==
    /\ pc = "tick"
    /\ received
    /\ command = IR_LEFT
    /\ ~atEntry.isSmartForward
    /\ Actuator(atEntry.pins) = "stop"
    /\ Less(Ms(signalTimeout), uptime)
    /\ Actuator(pins) = "turn-left"

\* C13: isSmartForward changes only in a step that handles a command, and
\* checkObstacle runs only while isSmartForward is set.
ModeChangesOnlyByCommand ==
    [][ /\ (isSmartForward' # isSmartForward => Receipt)
        /\ (checked' /\ ~checked => isSmartForward /\ isSmartForward') ]_vars

\* An avoidance cycle has run and the mode is as the command of the same
\* iteration left it.
ModeChangesWitness ==
    /\ pc = "tick"
    /\ checked
    /\ received
    /\ command = IR_SMART_FWD
    /\ isSmartForward
    /\ ~atEntry.isSmartForward

\* C14: an iteration that ends in SmartForward and in which the clock was
\* obstacleCheckInterval or more past lastObstacleCheck has run checkObstacle.
CheckRunsAtInterval ==
    pc = "tick" /\ isSmartForward
                /\ ~Less(Elapsed(millis, atEntry.lastObstacleCheck), Ms(obstacleCheckInterval))
      => checked

\* C15: checkObstacle runs at least obstacleCheckInterval of true time after
\* its previous run (after the start for the first run) and sets
\* lastObstacleCheck to the clock; no other step writes lastObstacleCheck.
CheckSpacing ==
    [][ /\ (checked' /\ ~checked
              => /\ ~Less(SinceCheck, Ms(obstacleCheckInterval))
                 /\ lastObstacleCheck' = millis)
        /\ (lastObstacleCheck' # lastObstacleCheck => checked' /\ ~checked) ]_vars

\* An avoidance cycle has run in a SmartForward session entered after the
\* session of the previous cycle was left.
CheckSpacingWitness ==
    /\ pc = "tick"
    /\ checked
    /\ received
    /\ command = IR_SMART_FWD
    /\ ~atEntry.isSmartForward
    /\ atEntry.lastObstacleCheck # Ms(0)
    /\ lastObstacleCheck = millis

\* C16: a step that decodes a command sets lastIRSignalTime to the clock,
\* whatever the code and the mode, and no other step changes lastIRSignalTime.
ReceiptStampsTime ==
    [][ /\ (Receipt => lastIRSignalTime' = millis /\ pc' = "watchdog")
        /\ (lastIRSignalTime' # lastIRSignalTime => Receipt) ]_vars

\* A code without a case has just been stamped in SmartForward.
ReceiptStampsWitness ==
    /\ pc = "watchdog"
    /\ received
    /\ command = IR_OTHER
    /\ isSmartForward
    /\ lastIRSignalTime = millis
    /\ Less(Ms(signalTimeout), uptime)

\* C17: the steps of an iteration run in the order command, watchdog,
\* avoidance cycle; an iteration whose command left SmartForward does not run
\* checkObstacle, and after the watchdog step of an iteration whose command
\* entered SmartForward the actuator is not stopped.
IterationOrder ==
    [][ /\ (pc = "ir" => pc' = "watchdog")
        /\ (pc = "watchdog" => pc' = "smart")
        /\ (pc = "smart" => pc' = "tick")
        /\ (received' /\ atEntry'.isSmartForward /\ ~isSmartForward' => ~checked')
        /\ (pc = "watchdog" /\ received /\ ~atEntry.isSmartForward /\ isSmartForward
              => pins' = pins /\ Actuator(pins') = "forward") ]_vars

\* An iteration has ended whose command left SmartForward when a cycle was
\* due, with the maneuver of the command still on the pins.
IterationOrderWitness ==
    /\ pc = "tick"
    /\ received
    /\ command = IR_BACKWARD
    /\ atEntry.isSmartForward
    /\ ~isSmartForward
    /\ CheckDue(millis, lastObstacleCheck)
    /\ Actuator(pins) = "backward"

\* C18: as long as less than Wrap (2^32 ms) of true time has passed since the
\* stamp,
\* the watchdog test is true exactly if more than signalTimeout of true time
\* has passed since the last command, and the test of the avoidance cycle
\* exactly if more than obstacleCheckInterval has passed since the last cycle.
WrapSafeIntervals ==
    /\ (Less(Silence, Wrap)
          => (WatchdogExpired(millis, lastIRSignalTime)
                <=> Less(Ms(signalTimeout), Silence)))
    /\ (Less(SinceCheck, Wrap)
          => (CheckDue(millis, lastObstacleCheck)
                <=> Less(Ms(obstacleCheckInterval), SinceCheck)))

\* The counter has wrapped since the last command, and the watchdog of this
\* iteration has stopped the car that command set in motion.
WrapSafeWitness ==
    /\ pc = "smart"
    /\ ~isSmartForward
    /\ Less(millis, lastIRSignalTime)
    /\ Less(Ms(signalTimeout), Silence)
    /\ Less(Silence, Wrap)
    /\ Actuator(atEntry.pins) = "forward"
    /\ Actuator(pins) = "stop"

\* C19: whenever the buzzer is on, the mode is SmartForward, isAvoiding is
\* set and the actuator is turn-right; the first call of loop() finds Manual,
\* Clear, both stamps zero, the actuator stopped and the buzzer off.
BuzzerImpliesAvoiding ==
    /\ (BuzzerOn(pins)
          => isSmartForward /\ isAvoiding /\ Actuator(pins) = "turn-right")
    /\ (uptime = Ms(0) /\ pc = "ir"
          => /\ ~isSmartForward
             /\ ~isAvoiding
             /\ lastObstacleCheck = Ms(0)
             /\ lastIRSignalTime = Ms(0)
             /\ Actuator(pins) = "stop"
             /\ ~BuzzerOn(pins))

\* An avoidance cycle has just turned the buzzer on, in a SmartForward
\* session that a toggle received after the start had entered.
BuzzerWitness ==
    /\ BuzzerOn(pins)
    /\ pc = "tick"
    /\ checked
    /\ ~atEntry.isAvoiding
    /\ toggleRun = 1
    /\ lastCommandAt # Ms(0)

\* C20: in SmartForward the actuator is forward or turn-right, and a step
\* that stays in SmartForward changes the pins only by running checkObstacle.
NoStopInSmart ==
    [][ /\ (isSmartForward' => Actuator(pins') \in {"forward", "turn-right"})
        /\ (isSmartForward /\ isSmartForward' /\ pins' # pins
              => pc = "smart" /\ checked') ]_vars

\* The watchdog step has passed in SmartForward after more than the timeout
\* of silence, and the car still moves.
NoStopWitness ==
    /\ pc = "smart"
    /\ isSmartForward
    /\ ~received
    /\ Less(Ms(signalTimeout), Silence)
    /\ WatchdogExpired(millis, lastIRSignalTime)
    /\ Actuator(pins) = "forward"
====
